---------------------------- MODULE Spec2Model ----------------------------
(***************************************************************************)
(* Model of the daily-reads digest pipeline (src/src/*.py).                *)
(*                                                                         *)
(*   SpecNorm    utils.normalize_url applied to bounded URLs, and the      *)
(*               seen-URL table of state_store.py used directly on them    *)
(*   SpecExtract extract.extract_article_text on bounded HTTP exchanges    *)
(*   Spec        run_digest.run_digest: the loop over the categories with  *)
(*               select_article and the seen-URL table, over several runs  *)
(*   SpecPool    run_digest.build_candidate_pool feed by feed and pass by  *)
(*               pass, with fetch_feed_items, for each category            *)
(*   SpecSum     gemini_summarize.summarize_article with _parse_bullets    *)
(*               and _fallback_bullets                                     *)
(*   SpecArb     run_digest._gemini_select_best on the reply's characters  *)
(*   SpecRank    scoring.rank_candidates and the arbitration fallback      *)
(*   SpecSelect  run_digest.select_article call by call, with its trace    *)
(*                                                                         *)
(* Strings are sequences of tokens.  A token is either one delimiter       *)
(* character, one percent-escape, or a name that holds no delimiter; the   *)
(* names form a prefix code, so a token sequence is exactly one string.    *)
(***************************************************************************)
EXTENDS Integers, Sequences, FiniteSets, TLC

VARIABLES
    \* ---- utils.normalize_url / state_store used directly
    url,            \* the URL handed to normalize_url
    normalized,     \* normalize_url(url)
    renormalized,   \* normalize_url(normalize_url(url))
    lookup,         \* result of state_store.is_url_seen(url) on the raw URL
    npc,            \* position in the normalisation scenario
    \* ---- extract.extract_article_text
    exchange,       \* what requests.get and trafilatura.extract do for the call
    rss_summary,    \* the rss_summary argument
    extraction,     \* the (text, status) pair returned
    xpc,            \* position in the extraction scenario
    \* ---- run_digest.run_digest
    seen_urls,      \* the seen_urls table of state_store.py (its keys)
    run,            \* number of the current run
    cat,            \* index in feeds.CATEGORIES of the current category
    pc,             \* position in run_digest
    candidates,     \* build_candidate_pool's result for the current category
    article,        \* select_article's result for the current category
    rejections,     \* select_article's rejections for the current category
    produced,       \* URLs of the articles in selected_articles (current run)
    seen_at_start,  \* the table's keys when the current run started
    selections,     \* how often select_article has returned each URL
    \* ---- the functions of the pipeline taken one at a time
    bp,             \* run_digest.build_candidate_pool: its locals and position
    sel,            \* run_digest.select_article: its locals and position
    arb,            \* run_digest._gemini_select_best: arguments and result
    rk,             \* scoring.rank_candidates: argument and result
    smry            \* gemini_summarize.summarize_article: inputs and result

normVars == <<url, normalized, renormalized, lookup, npc>>
extractVars == <<exchange, rss_summary, extraction, xpc>>
runVars == <<run, cat, pc, candidates, article, rejections,
             produced, seen_at_start, selections>>
auxVars == <<bp, sel, arb, rk, smry>>
vars == <<normVars, extractVars, seen_urls, runVars, auxVars>>

-----------------------------------------------------------------------------
(* Sequence helpers standing for Python's str methods.                     *)

\* str.find: index of the first occurrence of token t at or after from, 0 if none
RECURSIVE Find(_, _, _)
Find(s, t, from) ==
    IF from > Len(s) THEN 0
    ELSE IF s[from] = t THEN from
    ELSE Find(s, t, from + 1)

\* str.rfind: index of the last occurrence of token t, 0 if none
RECURSIVE RFind(_, _, _)
RFind(s, t, i) ==
    IF i = 0 THEN 0
    ELSE IF s[i] = t THEN i
    ELSE RFind(s, t, i - 1)

\* str.split(t): the fields between occurrences of t
RECURSIVE Split(_, _)
Split(s, t) ==
    LET i == Find(s, t, 1)
    IN  IF i = 0 THEN <<s>>
        ELSE <<SubSeq(s, 1, i - 1)>> \o Split(SubSeq(s, i + 1, Len(s)), t)

\* str.rstrip(t): s without its trailing run of t
RECURSIVE RStrip(_, _)
RStrip(s, t) ==
    IF s # <<>> /\ s[Len(s)] = t THEN RStrip(SubSeq(s, 1, Len(s) - 1), t)
    ELSE s

EndsWith(s, t) == s # <<>> /\ s[Len(s)] = t

RECURSIVE Join(_, _)
Join(parts, t) ==
    IF parts = <<>> THEN <<>>
    ELSE IF Len(parts) = 1 THEN parts[1]
    ELSE parts[1] \o <<t>> \o Join(Tail(parts), t)

-----------------------------------------------------------------------------
(* utils.normalize_url, with the urllib.parse functions it calls.          *)

\* Bound: number of tokens after scheme and host in a URL handed to normalize_url
MaxUrlLen == 4

\* scheme and host of every modelled URL, one token ("https" and "x.com")
Origin == "https://x.com"

\* the names a URL may hold besides delimiters: an ordinary name, a name of
\* the deny-list, and a utm_ name the deny-list does not hold
Names == {"x", "ref", "utm_id"}
Delims == {"/", "?", "#", "&", "=", ";"}
Escapes == {"%2F"}
Tokens == Names \cup Delims \cup Escapes

\* the part after scheme and host starts a path, a query or a fragment
RestStrings ==
    UNION {{s \in [1..n -> Tokens] : n > 0 => s[1] \in {"/", "?", "#"}}
           : n \in 0..MaxUrlLen}
Urls == {<<Origin>> \o r : r \in RestStrings}

tracking_params_short ==
    {"utm_source", "utm_medium", "utm_campaign", "utm_content", "utm_term",
     "fbclid", "gclid", "msclkid", "mc_cid", "mc_eid", "_ga", "_gl", "source"}

tracking_params ==
    {"utm_source", "utm_medium", "utm_campaign", "utm_content", "utm_term",
     "fbclid", "gclid", "msclkid", "mc_cid", "mc_eid", "_ga", "_gl", "ref",
     "source"}

\* k not in tracking_params, for a decoded parameter name k
IsTracking(k) == Len(k) = 1 /\ k[1] \in tracking_params

\* urllib.parse._splitparams
splitparams(p) ==
    LET i == IF Find(p, "/", 1) > 0 THEN Find(p, ";", RFind(p, "/", Len(p)))
             ELSE Find(p, ";", 1)
    IN  IF i = 0 THEN [path |-> p, params |-> <<>>]
        ELSE [path |-> SubSeq(p, 1, i - 1), params |-> SubSeq(p, i + 1, Len(p))]

\* urllib.parse.urlparse: the fragment is cut at the first '#', then the
\* query at the first '?', then the params of the last path segment at ';'
urlparse(u) ==
    LET rest == Tail(u)
        h == Find(rest, "#", 1)
        nofrag == IF h = 0 THEN rest ELSE SubSeq(rest, 1, h - 1)
        q == Find(nofrag, "?", 1)
        noquery == IF q = 0 THEN nofrag ELSE SubSeq(nofrag, 1, q - 1)
        sp == IF Find(noquery, ";", 1) > 0 THEN splitparams(noquery)
              ELSE [path |-> noquery, params |-> <<>>]
    IN  [origin   |-> Head(u),
         path     |-> sp.path,
         params   |-> sp.params,
         query    |-> IF q = 0 THEN <<>> ELSE SubSeq(nofrag, q + 1, Len(nofrag)),
         fragment |-> IF h = 0 THEN <<>> ELSE SubSeq(rest, h + 1, Len(rest))]

\* urllib.parse.unquote and quote_plus, token by token
UnquoteToken(t) ==
    CASE t = "%2F" -> "/"
      [] t = "%3F" -> "?"
      [] t = "%3B" -> ";"
      [] t = "%3D" -> "="
      [] t = "%26" -> "&"
      [] t = "%23" -> "#"
      [] OTHER     -> t
QuoteToken(t) ==
    CASE t = "/" -> "%2F"
      [] t = "?" -> "%3F"
      [] t = ";" -> "%3B"
      [] t = "=" -> "%3D"
      [] t = "&" -> "%26"
      [] t = "#" -> "%23"
      [] OTHER   -> t
unquote(s) == [i \in 1..Len(s) |-> UnquoteToken(s[i])]
quote_plus(s) == [i \in 1..Len(s) |-> QuoteToken(s[i])]

\* urllib.parse.parse_qsl(query, keep_blank_values=True): the fields between
\* '&', empty fields skipped, each cut at its first '=' and decoded
RECURSIVE PairsOf(_)
PairsOf(fields) ==
    IF fields = <<>> THEN <<>>
    ELSE LET f == Head(fields)
             e == Find(f, "=", 1)
             pair == IF e = 0 THEN [k |-> unquote(f), v |-> <<>>]
                     ELSE [k |-> unquote(SubSeq(f, 1, e - 1)),
                           v |-> unquote(SubSeq(f, e + 1, Len(f)))]
         IN  (IF f = <<>> THEN <<>> ELSE <<pair>>) \o PairsOf(Tail(fields))
parse_qsl(query) == PairsOf(Split(query, "&"))

\* the dict parse_qs builds from the pairs: one entry per name in the order
\* of first appearance, holding the name's values in order
RECURSIVE GroupPairs(_, _)
GroupPairs(pairs, acc) ==
    IF pairs = <<>> THEN acc
    ELSE LET p == Head(pairs)
             at == {i \in 1..Len(acc) : acc[i].k = p.k}
         IN  GroupPairs(Tail(pairs),
                 IF at = {} THEN Append(acc, [k |-> p.k, vs |-> <<p.v>>])
                 ELSE [i \in 1..Len(acc) |->
                         IF i \in at THEN [acc[i] EXCEPT !.vs = Append(@, p.v)]
                         ELSE acc[i]])
parse_qs(query) == GroupPairs(parse_qsl(query), <<>>)

\* {k: v for k, v in qs.items() if k not in tracking_params}
RECURSIVE cleaned_qs(_)
cleaned_qs(qs) ==
    IF qs = <<>> THEN <<>>
    ELSE (IF IsTracking(Head(qs).k) THEN <<>> ELSE <<Head(qs)>>)
         \o cleaned_qs(Tail(qs))

\* urllib.parse.urlencode(d, doseq=True)
RECURSIVE EncodeValues(_, _)
EncodeValues(k, vs) ==
    IF vs = <<>> THEN <<>>
    ELSE <<quote_plus(k) \o <<"=">> \o quote_plus(Head(vs))>>
         \o EncodeValues(k, Tail(vs))
RECURSIVE EncodeEntries(_)
EncodeEntries(qs) ==
    IF qs = <<>> THEN <<>>
    ELSE EncodeValues(Head(qs).k, Head(qs).vs) \o EncodeEntries(Tail(qs))
urlencode(qs) == Join(EncodeEntries(qs), "&")

\* urllib.parse.urlunparse with an empty fragment
urlunparse(origin, path, params, query) ==
    LET withparams == IF params # <<>> THEN path \o <<";">> \o params ELSE path
        rooted == IF withparams # <<>> /\ Head(withparams) # "/"
                  THEN <<"/">> \o withparams ELSE withparams
    IN  <<origin>> \o rooted \o (IF query # <<>> THEN <<"?">> \o query ELSE <<>>)

\* the query normalize_url rebuilds
new_query(parsed) ==
    IF parsed.query # <<>> THEN urlencode(cleaned_qs(parse_qs(parsed.query)))
    ELSE <<>>

\* the trailing-slash step of normalize_url
strip_trailing(normal, parsed) ==
    IF EndsWith(normal, "/") /\ parsed.path # <<"/">> THEN RStrip(normal, "/")
    ELSE normal

normalize_url(u) ==
    LET parsed == urlparse(u)
    IN  strip_trailing(
            urlunparse(parsed.origin, parsed.path, parsed.params,
                       new_query(parsed)),
            parsed)

-----------------------------------------------------------------------------
(* state_store.py: the table seen_urls, keyed by the string it is given.   *)

is_url_seen(u, table) == u \in table
mark_url_seen(u, table) == table \cup {u}

-----------------------------------------------------------------------------
(* extract.py: is_paywalled and extract_article_text.                      *)
(*                                                                         *)
(* A text is known by its length: NoneText is Python's None, Str(n) a str  *)
(* of n characters.  An HTML body is [len, cue, kw]: its length, whether   *)
(* PAYWALL_PATTERN matches it, and whether it holds one of the             *)
(* subscription keywords.  An exchange is what the two capabilities do for *)
(* one call: requests.get raises or answers with a status and a body, and  *)
(* trafilatura.extract raises, returns None or returns a text.             *)

MinTextLen == 800
MinSummaryLen == 200
ShortHtmlLen == 500

\* Bound: how far around each length threshold the modelled lengths reach
Slack == 1

NoneText == [kind |-> "none", len |-> 0]
Str(n) == [kind |-> "str", len |-> n]
Raised == [kind |-> "raise", len |-> 0]

StatusCodes == {200, 402, 403, 404}
HtmlLens == (ShortHtmlLen - Slack .. ShortHtmlLen + Slack) \cup {MinTextLen + Slack}
TextLens == {1} \cup (MinTextLen - Slack .. MinTextLen + Slack)
SummaryLens == {0, 250} \cup (MinSummaryLen - Slack .. MinSummaryLen + Slack)

Htmls == [len : HtmlLens, cue : BOOLEAN, kw : BOOLEAN]
NoHtml == [len |-> 0, cue |-> FALSE, kw |-> FALSE]

\* trafilatura.extract on a body: an exception, None, or a non-empty text
\* no longer than the body
ExtractOutcomes(html) ==
    {Raised, NoneText} \cup {Str(l) : l \in {n \in TextLens : n <= html.len}}

Exchanges ==
    {[fetch |-> f, status_code |-> 0, html |-> NoHtml, extracted |-> NoneText]
       : f \in {"RequestException", "Exception"}}
    \cup UNION {{[fetch |-> "response", status_code |-> st, html |-> h,
                  extracted |-> e] : st \in StatusCodes, e \in ExtractOutcomes(h)}
                : h \in Htmls}
Summaries == {NoneText} \cup {Str(l) : l \in SummaryLens}

\* Python truth of an Optional[str]
Truthy(t) == t.kind = "str" /\ t.len > 0

NoText(status) == [text |-> NoneText, from |-> "none", status |-> status]
RssText(summary) == [text |-> summary, from |-> "rss", status |-> "fallback_rss"]
PageText(extracted) == [text |-> extracted, from |-> "page", status |-> "ok"]

is_paywalled(html, status_code) ==
    \/ status_code \in {402, 403}
    \/ html.cue
    \/ html.len < ShortHtmlLen /\ html.kw

\* "if rss_summary: return rss_summary, 'fallback_rss'; return None, <status>"
fallback_or(summary, status) ==
    IF Truthy(summary) THEN RssText(summary) ELSE NoText(status)

\* the branch taken when is_paywalled answers True
on_paywall_mutant(summary) == fallback_or(summary, "paywall")
on_paywall(summary) == NoText("paywall")

\* the branch taken when the extracted text is shorter than 800 characters
on_too_short_mutant(summary) ==
    IF Truthy(summary) /\ summary.len > MinSummaryLen THEN RssText(summary)
    ELSE NoText("too_short")
on_too_short(summary) ==
    IF Truthy(summary) /\ summary.len >= MinSummaryLen THEN RssText(summary)
    ELSE IF Truthy(summary) THEN NoText("too_short")
    ELSE NoText("too_short")

\* except requests.RequestException
on_request_exception_mutant(summary) == fallback_or(summary, "extraction_failed")
on_request_exception(summary) == fallback_or(summary, "fetch_failed")

\* except Exception
on_exception(summary) == fallback_or(summary, "extraction_failed")

\* the body of the try block once requests.get has answered
on_response(ex, summary) ==
    IF ex.status_code # 200 THEN fallback_or(summary, "fetch_failed")
    ELSE IF is_paywalled(ex.html, ex.status_code) THEN on_paywall(summary)
    ELSE IF ex.extracted = Raised THEN on_exception(summary)
    ELSE IF ~Truthy(ex.extracted) THEN fallback_or(summary, "extraction_failed")
    ELSE IF ex.extracted.len < MinTextLen THEN on_too_short(summary)
    ELSE PageText(ex.extracted)

extract_article_text(ex, summary) ==
    CASE ex.fetch = "RequestException" -> on_request_exception(summary)
      [] ex.fetch = "Exception"        -> on_exception(summary)
      [] OTHER                         -> on_response(ex, summary)

\* whether the code reads the body into html (html = response.text): not
\* when requests.get raised or the status is not 200
html_is_read(ex) == ex.fetch = "response" /\ ex.status_code = 200

-----------------------------------------------------------------------------
(* scoring.rank_candidates, gemini_summarize.summarize_article and the     *)
(* functions of run_digest.py.                                             *)

\* Bound: entries the feeds of one category deliver in one run
MaxFetched == 2
\* Bound: runs of the digest over the same seen_urls table
MaxRuns == 2

CATEGORIES == <<"llms", "ai", "markets">>
max_candidates == 10
top_n == 3

\* What the feeds can deliver: entries with a link as published (not yet
\* normalised), a title and the score scoring.score_article gives them.
\* Three of the links name the same article.
FeedEntries ==
    {[link |-> <<Origin, "/", "x">>,           title |-> "t1", score |-> 2],
     [link |-> <<Origin, "/", "x", "/">>,      title |-> "t2", score |-> 1],
     [link |-> <<Origin, "/", "x", "?", "ref">>, title |-> "t3", score |-> 2],
     [link |-> <<Origin, "/">>,                title |-> "t4", score |-> 1],
     [link |-> <<Origin, "/", "x", "/", "?", "x">>, title |-> "t5", score |-> 2]}

\* the URLs a pool can hold
PoolUrls == {normalize_url(e.link) : e \in FeedEntries}

FetchedLists == UNION {[1..n -> FeedEntries] : n \in 0..MaxFetched}

\* fetch_feed_items: the item built from one feed entry
feed_item(entry) ==
    [title |-> entry.title, url |-> normalize_url(entry.link),
     score |-> entry.score]

\* build_candidate_pool, "Remove duplicates by URL": the first item of each
\* URL is kept
RECURSIVE unique_candidates(_, _)
unique_candidates(items, urls) ==
    IF items = <<>> THEN <<>>
    ELSE IF Head(items).url \in urls THEN unique_candidates(Tail(items), urls)
    ELSE <<Head(items)>>
         \o unique_candidates(Tail(items), urls \cup {Head(items).url})

FirstN(s, n) == SubSeq(s, 1, IF Len(s) < n THEN Len(s) ELSE n)

\* build_candidate_pool on the entries its feeds delivered, in order
build_candidate_pool(fetched) ==
    FirstN(unique_candidates([i \in 1..Len(fetched) |-> feed_item(fetched[i])], {}),
           max_candidates)

RECURSIVE InsertByScore_mutant(_, _)
InsertByScore_mutant(c, sorted) ==
    IF sorted = <<>> THEN <<c>>
    ELSE IF Head(sorted).score > c.score
         THEN <<Head(sorted)>> \o InsertByScore_mutant(c, Tail(sorted))
         ELSE <<c>> \o sorted
\* sorted(candidates, key=score, reverse=True) is stable: an item goes
\* behind every item whose score is not lower
RECURSIVE InsertByScore(_, _)
InsertByScore(c, sorted) ==
    IF sorted = <<>> THEN <<c>>
    ELSE IF Head(sorted).score >= c.score
         THEN <<Head(sorted)>> \o InsertByScore(c, Tail(sorted))
         ELSE <<c>> \o sorted
RECURSIVE SortByScore(_, _)
SortByScore(todo, sorted) ==
    IF todo = <<>> THEN sorted
    ELSE SortByScore(Tail(todo), InsertByScore(Head(todo), sorted))
rank_candidates(cands) == FirstN(SortByScore(cands, <<>>), top_n)

\* What extract_article_text can return to select_article: a status and
\* whether a text comes with it
ExtractResults ==
    {[status |-> r.status, has_text |-> r.text # NoneText]
       : r \in {extract_article_text(ex, sm) : ex \in Exchanges, sm \in Summaries}}

\* The arbitration reply: the call raises (-1), the reply holds no standalone
\* digit 1-3 (0), or the first such digit
GeminiReplies == -1..3

\* _gemini_select_best
gemini_select_best_mutant(top, reply) ==
    IF reply >= 1 /\ reply - 1 < Len(top) THEN top[reply] ELSE top[Len(top)]
gemini_select_best(top, reply) ==
    IF reply >= 1 /\ reply - 1 < Len(top) THEN top[reply] ELSE top[1]

Placeholder == "Key information available in full article."

\* _fallback_bullets on a text with nsent sentences longer than 20 characters
fallback_bullets(nsent) ==
    [i \in 1..3 |-> IF i <= nsent THEN "sentence" ELSE Placeholder]

\* summarize_article: the model call raises (-1) or its reply parses into
\* reply bullets
summarize_article(reply, nsent) ==
    IF reply = 3 THEN <<"bullet", "bullet", "bullet">>
    ELSE fallback_bullets(nsent)

\* The summarisation cases drawn in a run: the model's three bullets, a
\* reply of two bullets, and an error on a text without usable sentences
SummaryCases ==
    {[reply |-> 3, nsent |-> 3], [reply |-> 2, nsent |-> 3],
     [reply |-> -1, nsent |-> 0]}

NoArticle == [title |-> "", url |-> <<>>, bullets |-> <<>>]

\* state_store.is_url_seen as select_article calls it
is_seen_mutant(u, table) == FALSE
is_seen(u, table) == is_url_seen(u, table)

\* select_article, "Filter seen URLs"
RECURSIVE FilterSeen(_, _)
FilterSeen(cands, table) ==
    IF cands = <<>> THEN [unseen |-> <<>>, rejections |-> <<>>]
    ELSE LET c == Head(cands)
             rest == FilterSeen(Tail(cands), table)
         IN  IF is_seen(c.url, table)
             THEN [rest EXCEPT !.rejections = <<<<c.url, "duplicate">>>> \o @]
             ELSE [rest EXCEPT !.unseen = <<c>> \o @]

\* select_article, "Extract article text for each candidate": outcomes[i]
\* is what extract_article_text returns for the i-th unseen candidate
RECURSIVE ExtractAll(_, _, _)
ExtractAll(unseen, outcomes, i) ==
    IF i > Len(unseen) THEN [extracted |-> <<>>, rejections |-> <<>>]
    ELSE LET c == unseen[i]
             o == outcomes[i]
             rest == ExtractAll(unseen, outcomes, i + 1)
         IN  IF o.status = "paywall"
             THEN [rest EXCEPT !.rejections = <<<<c.url, "paywall">>>> \o @]
             ELSE IF o.status \in {"fetch_failed", "extraction_failed", "too_short"}
             THEN [rest EXCEPT !.rejections =
                       <<<<c.url, "extraction failed (" \o o.status \o ")">>>> \o @]
             ELSE IF ~o.has_text
             THEN [rest EXCEPT !.rejections =
                       <<<<c.url, "no text available">>>> \o @]
             ELSE [rest EXCEPT !.extracted = <<c>> \o @]

\* select_article, "Add non-selected to rejections"
RECURSIVE NotSelected(_, _)
NotSelected(top, selected) ==
    IF top = <<>> THEN <<>>
    ELSE (IF Head(top).url # selected.url
          THEN <<<<Head(top).url, "not selected (lower relevance)">>>>
          ELSE <<>>) \o NotSelected(Tail(top), selected)

\* select_article(category, candidates, gemini_model) against the table,
\* given what the capabilities answer: the extraction outcomes, the
\* arbitration reply and the summarisation case
select_article(cands, table, outcomes, reply, sum) ==
    LET f == FilterSeen(cands, table)
        e == ExtractAll(f.unseen, outcomes, 1)
        top == rank_candidates(e.extracted)
        selected == IF Len(top) = 1 THEN top[1] ELSE gemini_select_best(top, reply)
    IN  IF f.unseen = <<>>
        THEN [article |-> NoArticle, rejections |-> f.rejections]
        ELSE IF e.extracted = <<>> \/ top = <<>>
        THEN [article |-> NoArticle, rejections |-> f.rejections \o e.rejections]
        ELSE [article |-> [title |-> selected.title, url |-> selected.url,
                           bullets |-> summarize_article(sum.reply, sum.nsent)],
              rejections |-> f.rejections \o e.rejections
                             \o NotSelected(top, selected)]

\* run_digest, "Mark selected URL as seen": the URLs the category adds
urls_to_mark_mutant(art, cands) == {cands[i].url : i \in 1..Len(cands)}
urls_to_mark(art, cands) == IF art # NoArticle THEN {art.url} ELSE {}

-----------------------------------------------------------------------------
(* The scenarios.  Each specification leaves the variables of the others   *)
(* at their idle values.                                                   *)

NormIdle ==
    /\ url = <<>> /\ normalized = <<>> /\ renormalized = <<>>
    /\ lookup = FALSE /\ npc = "idle"
ExtractIdle ==
    /\ exchange = [fetch |-> "idle", status_code |-> 0, html |-> NoHtml,
                   extracted |-> NoneText]
    /\ rss_summary = NoneText
    /\ extraction = NoText("idle")
    /\ xpc = "idle"
NoSelections == [u \in PoolUrls |-> 0]
RunIdle ==
    /\ run = 0 /\ cat = 0 /\ pc = "idle"
    /\ candidates = <<>> /\ article = NoArticle /\ rejections = <<>>
    /\ produced = {} /\ seen_at_start = {} /\ selections = NoSelections

Idle == [pc |-> "idle"]
AuxIdle == bp = Idle /\ sel = Idle /\ arb = Idle /\ rk = Idle /\ smry = Idle

(* ---- SpecNorm: a URL is normalised, normalised again, marked seen in    *)
(* its normalised form and looked up in the form it came in.               *)

NormInit ==
    /\ url \in Urls
    /\ normalized = <<>> /\ renormalized = <<>> /\ lookup = FALSE
    /\ npc = "start"
    /\ seen_urls = {}
    /\ ExtractIdle /\ RunIdle /\ AuxIdle

Normalize ==
    /\ npc = "start"
    /\ normalized' = normalize_url(url)
    /\ npc' = "normalized"
    /\ UNCHANGED auxVars
    /\ UNCHANGED <<url, renormalized, lookup, seen_urls, extractVars, runVars>>

Renormalize ==
    /\ npc = "normalized"
    /\ renormalized' = normalize_url(normalized)
    /\ npc' = "renormalized"
    /\ UNCHANGED auxVars
    /\ UNCHANGED <<url, normalized, lookup, seen_urls, extractVars, runVars>>

MarkNormalized ==
    /\ npc = "renormalized"
    /\ seen_urls' = mark_url_seen(normalized, seen_urls)
    /\ npc' = "marked"
    /\ UNCHANGED auxVars
    /\ UNCHANGED <<url, normalized, renormalized, lookup, extractVars, runVars>>

LookupRaw ==
    /\ npc = "marked"
    /\ lookup' = is_url_seen(url, seen_urls)
    /\ npc' = "looked"
    /\ UNCHANGED auxVars
    /\ UNCHANGED <<url, normalized, renormalized, seen_urls, extractVars, runVars>>

NormNext == Normalize \/ Renormalize \/ MarkNormalized \/ LookupRaw
SpecNorm == NormInit /\ [][NormNext]_vars

(* ---- SpecExtract: one call of extract_article_text.                     *)

ExtractInit ==
    /\ exchange \in Exchanges
    /\ rss_summary \in Summaries
    /\ extraction = NoText("idle")
    /\ xpc = "call"
    /\ seen_urls = {}
    /\ NormIdle /\ RunIdle /\ AuxIdle

Extract ==
    /\ xpc = "call"
    /\ extraction' = extract_article_text(exchange, rss_summary)
    /\ xpc' = "returned"
    /\ UNCHANGED auxVars
    /\ UNCHANGED <<exchange, rss_summary, seen_urls, normVars, runVars>>

ExtractNext == Extract
SpecExtract == ExtractInit /\ [][ExtractNext]_vars

(* ---- Spec: run_digest, run after run over the same table.               *)

Init ==
    /\ seen_urls = {}
    /\ run = 1 /\ cat = 1 /\ pc = "start"
    /\ candidates = <<>> /\ article = NoArticle /\ rejections = <<>>
    /\ produced = {} /\ seen_at_start = {} /\ selections = NoSelections
    /\ NormIdle /\ ExtractIdle /\ AuxIdle

\* init_db and init_gemini succeed; the run starts on the first category
StartRun ==
    /\ pc = "start"
    /\ seen_at_start' = seen_urls
    /\ produced' = {}
    /\ cat' = 1
    /\ pc' = "build"
    /\ UNCHANGED auxVars
    /\ UNCHANGED <<seen_urls, run, candidates, article, rejections,
                   selections, normVars, extractVars>>

\* init_gemini raises: sys.exit(1) before any category
GeminiInitFails ==
    /\ pc = "start"
    /\ pc' = "done"
    /\ UNCHANGED auxVars
    /\ UNCHANGED <<seen_urls, run, cat, candidates, article, rejections,
                   produced, seen_at_start, selections, normVars, extractVars>>

AfterCategory == IF cat = Len(CATEGORIES) THEN "render" ELSE "build"
NextCategory == IF cat = Len(CATEGORIES) THEN cat ELSE cat + 1

\* build_candidate_pool for the category; an empty pool ends the category
BuildPool ==
    /\ pc = "build"
    /\ \E fetched \in FetchedLists :
         LET pool == build_candidate_pool(fetched)
         IN  /\ candidates' = pool
             /\ IF pool = <<>>
                THEN cat' = NextCategory /\ pc' = AfterCategory
                ELSE cat' = cat /\ pc' = "select"
    /\ UNCHANGED auxVars
    /\ UNCHANGED <<seen_urls, run, article, rejections, produced,
                   seen_at_start, selections, normVars, extractVars>>

\* article, rejections = select_article(category, candidates, gemini_model);
\* the model is asked to arbitrate only among two or more top candidates
\* and to summarise only when a candidate is selected
Select ==
    /\ pc = "select"
    /\ LET f == FilterSeen(candidates, seen_urls)
       IN  \E outcomes \in [1..Len(f.unseen) -> ExtractResults] :
             LET top == rank_candidates(ExtractAll(f.unseen, outcomes, 1).extracted)
             IN  \E reply \in (IF Len(top) >= 2 THEN GeminiReplies ELSE {0}),
                    sum \in (IF Len(top) >= 1 THEN SummaryCases
                             ELSE {[reply |-> 3, nsent |-> 3]}) :
                   LET r == select_article(candidates, seen_urls, outcomes,
                                           reply, sum)
                   IN  /\ article' = r.article
                       /\ rejections' = r.rejections
                       /\ produced' = IF r.article # NoArticle
                                      THEN produced \cup {r.article.url}
                                      ELSE produced
                       /\ selections' = IF r.article # NoArticle
                                        THEN [selections EXCEPT ![r.article.url] = @ + 1]
                                        ELSE selections
    /\ pc' = "mark"
    /\ UNCHANGED auxVars
    /\ UNCHANGED <<seen_urls, run, cat, candidates, seen_at_start,
                   normVars, extractVars>>

\* selected_articles[category] = article; mark_url_seen(article["url"]);
\* the loop goes on to the next category with fresh locals
Mark ==
    /\ pc = "mark"
    /\ seen_urls' = seen_urls \cup urls_to_mark(article, candidates)
    /\ cat' = NextCategory
    /\ pc' = AfterCategory
    /\ candidates' = <<>> /\ article' = NoArticle /\ rejections' = <<>>
    /\ UNCHANGED auxVars
    /\ UNCHANGED <<run, produced, seen_at_start, selections,
                   normVars, extractVars>>

\* the digest is rendered and written; the run ends
Render ==
    /\ pc = "render"
    /\ pc' = "done"
    /\ UNCHANGED auxVars
    /\ UNCHANGED <<seen_urls, run, cat, candidates, article, rejections,
                   produced, seen_at_start, selections, normVars, extractVars>>

\* the next day's run
NextRun ==
    /\ pc = "done"
    /\ run < MaxRuns
    /\ run' = run + 1
    /\ pc' = "start"
    /\ UNCHANGED auxVars
    /\ UNCHANGED <<seen_urls, cat, candidates, article, rejections,
                   produced, seen_at_start, selections, normVars, extractVars>>

Next ==
    \/ StartRun \/ GeminiInitFails \/ BuildPool \/ Select \/ Mark
    \/ Render \/ NextRun
Spec == Init /\ [][Next]_vars

-----------------------------------------------------------------------------
(* ---- SpecPool: build_candidate_pool feed by feed, pass by pass, for     *)
(* each category of run_digest's loop in turn.                             *)

\* Bound: entries that pass the filters of one fetch is at most the entries
\* one parsed feed holds
MaxItems == 1
\* Bound: entries gathered over the two passes of one build
MaxGathered == 4
\* all_feeds_for("llms"): no curated feed and three Google News queries
NumFeeds == 3
PrimaryHours == 48
ExtendedHours == 168
MinPrimary == 3

\* values of the max_candidates argument (run_digest passes the default)
MaxCandidatesArgs == {2, 3, max_candidates}

NoLink == <<>>
EntryLinks ==
    {<<Origin, "/", "x">>, <<Origin, "/", "x", "?", "ref">>, <<Origin, "/">>,
     <<Origin, "/", "ref">>, NoLink}
\* hours since publication; -1 when parse_date gives None
NoDate == -1
EntryAges == {PrimaryHours, PrimaryHours + 1, ExtendedHours + 1, NoDate}
\* an entry without link is skipped before its date is looked at
ParsedEntries ==
    [link : EntryLinks \ {NoLink}, age : EntryAges]
    \cup {[link |-> NoLink, age |-> NoDate]}
\* what feedparser.parse and the loop over the entries do for one fetch:
\* raise somewhere, or deliver the entries
FeedResponses ==
    {[raises |-> TRUE, entries |-> <<>>]}
    \cup {[raises |-> FALSE, entries |-> es] :
             es \in UNION {[1..n -> ParsedEntries] : n \in 0..MaxItems}}
\* utils.normalize_url(link) for the links of the entries
normalized_url == [l \in EntryLinks \ {NoLink} |-> normalize_url(l)]

\* published_dt >= cutoff_dt with cutoff_dt = now - window
is_recent(age, window) == age # NoDate /\ age <= window
cutoff(pass) == IF pass = 1 THEN PrimaryHours ELSE ExtendedHours

\* the loop over parsed.entries; the title tells the items apart (the
\* k-th item of the feed in the pass)
RECURSIVE feed_items(_, _, _, _, _)
feed_items(entries, feed, pass, i, k) ==
    IF i > Len(entries) THEN <<>>
    ELSE IF entries[i].link = NoLink
              \/ ~is_recent(entries[i].age, cutoff(pass))
         THEN feed_items(entries, feed, pass, i + 1, k)
         ELSE <<[title |-> <<pass, feed, k>>,
                 url |-> normalized_url[entries[i].link],
                 feed_name |-> feed]>>
              \o feed_items(entries, feed, pass, i + 1, k + 1)

fetch_feed_items_mutant(resp, feed, pass) ==
    IF resp.raises THEN [raised |-> TRUE, items |-> <<>>]
    ELSE [raised |-> FALSE, items |-> feed_items(resp.entries, feed, pass, 1, 1)]
\* the whole body is in a try whose except clause returns []; raised tells
\* whether an exception leaves fetch_feed_items
fetch_feed_items(resp, feed, pass) ==
    IF resp.raises THEN [raised |-> FALSE, items |-> <<>>]
    ELSE [raised |-> FALSE, items |-> feed_items(resp.entries, feed, pass, 1, 1)]

needs_extended_mutant(n) == n <= MinPrimary
\* if len(candidates) < 3, after the primary pass
needs_extended(n) == n < MinPrimary

\* the outcomes of one call of fetch_feed_items, per pass and feed
FetchResults ==
    [p \in 1..2, f \in 1..NumFeeds |->
        {[failed |-> resp.raises, r |-> fetch_feed_items(resp, f, p)] :
            resp \in FeedResponses}]

dedup_and_cut_mutant(cands, maxc) == FirstN(cands, maxc)
\* the duplicates by URL are removed, then the list is cut
dedup_and_cut(cands, maxc) == FirstN(unique_candidates(cands, {}), maxc)

PoolStart(c, maxc, failed) ==
    [pc |-> "fetch", cat |-> c, pass |-> 1, feed |-> 1, maxc |-> maxc,
     candidates |-> <<>>, fetched |-> <<>>,
     primary |-> -1, failed |-> failed, result |-> <<>>]

PoolInit ==
    /\ bp \in {PoolStart(1, m, FALSE) : m \in MaxCandidatesArgs}
    /\ sel = Idle /\ arb = Idle /\ rk = Idle /\ smry = Idle
    /\ seen_urls = {}
    /\ NormIdle /\ ExtractIdle /\ RunIdle

\* items = fetch_feed_items(feed, cutoff); candidates.extend(items); the
\* break, the end of the pass and the test for the extended pass.  Nothing
\* in build_candidate_pool or run_digest catches an exception that leaves
\* fetch_feed_items: the run would end there ("raised").
FetchFeed ==
    /\ bp.pc = "fetch"
    /\ \E res \in FetchResults[bp.pass, bp.feed] :
         LET r == res.r
             c == bp.candidates \o r.items
             last == Len(c) >= bp.maxc \/ bp.feed = NumFeeds
             extend == bp.pass = 1 /\ needs_extended(Len(c))
         IN  /\ Len(c) <= MaxGathered
             /\ bp' = IF r.raised
                      THEN [bp EXCEPT !.pc = "raised"]
                      ELSE [bp EXCEPT
                              !.candidates = c,
                              !.fetched = Append(@, [pass |-> bp.pass,
                                                     feed |-> bp.feed,
                                                     failed |-> res.failed,
                                                     n |-> Len(r.items)]),
                              !.failed = @ \/ res.failed,
                              !.feed = IF last THEN 1 ELSE @ + 1,
                              !.pass = IF last /\ extend THEN 2 ELSE @,
                              !.primary = IF last /\ bp.pass = 1
                                          THEN Len(c) ELSE @,
                              !.pc = IF last /\ ~extend
                                     THEN "dedup" ELSE "fetch"]
    /\ UNCHANGED <<normVars, extractVars, seen_urls, runVars, sel, arb, rk, smry>>

\* the duplicates are removed and the pool is returned
ReturnPool ==
    /\ bp.pc = "dedup"
    /\ bp' = [bp EXCEPT !.result = dedup_and_cut(bp.candidates, bp.maxc),
                        !.pc = "returned"]
    /\ UNCHANGED <<normVars, extractVars, seen_urls, runVars, sel, arb, rk, smry>>

\* run_digest's loop goes on to the next category
NextPool ==
    /\ bp.pc = "returned"
    /\ bp' = IF bp.cat = Len(CATEGORIES)
             THEN [bp EXCEPT !.pc = "done"]
             ELSE PoolStart(bp.cat + 1, bp.maxc, bp.failed)
    /\ UNCHANGED <<normVars, extractVars, seen_urls, runVars, sel, arb, rk, smry>>

PoolNext == FetchFeed \/ ReturnPool \/ NextPool
SpecPool == PoolInit /\ [][PoolNext]_vars

-----------------------------------------------------------------------------
(* ---- SpecSum: gemini_summarize.summarize_article on a reply of the      *)
(* model given line by line and character by character, and an article     *)
(* text given as the pieces re.split cuts it into.                         *)

\* Bound: lines of the reply
MaxLines == 3
TextWindow == 1500
MinSentenceLen == 20
MaxBulletLen == 150
CutLen == 147
EllipsisLen == 3
PlaceholderLen == 42
SeparatorLen == 2

ReplyLines ==
    {<<>>, <<" ">>, <<"w">>, <<"-", " ", "w">>, <<"1", ".", " ", "w">>,
     <<"-", " ", "1", ".", " ", "w">>, <<"-">>, <<" ", "1", ".", " ">>}
Replies == UNION {[1..n -> ReplyLines] : n \in 0..MaxLines}
\* what the model does for the call: there is no model and init_gemini
\* raises, generate_content raises, response.text raises, or a reply
Behaviours ==
    {[kind |-> k, lines |-> <<>>] : k \in {"init_fails", "raises", "no_text"}}
    \cup {[kind |-> "reply", lines |-> ls] : ls \in Replies}

\* a piece of the article: len characters, all of them blank or none
Piece(n, blank) == [len |-> n, blank |-> blank]
Articles ==
    {<<Piece(21, FALSE), Piece(21, FALSE), Piece(21, FALSE), Piece(21, FALSE)>>,
     <<Piece(20, FALSE), Piece(21, FALSE)>>,
     <<Piece(1, TRUE)>>,
     <<Piece(1, FALSE)>>,
     <<Piece(151, FALSE), Piece(150, FALSE), Piece(21, FALSE)>>,
     <<Piece(1500, FALSE), Piece(21, FALSE)>>,
     <<Piece(1480, FALSE), Piece(21, FALSE), Piece(21, FALSE)>>}

\* str.strip on a line
RECURSIVE LStrip(_)
LStrip(s) == IF s # <<>> /\ Head(s) = " " THEN LStrip(Tail(s)) ELSE s
RECURSIVE RStripBlank(_)
RStripBlank(s) ==
    IF s # <<>> /\ s[Len(s)] = " " THEN RStripBlank(SubSeq(s, 1, Len(s) - 1))
    ELSE s
strip(s) == RStripBlank(LStrip(s))

\* re.sub(r'^[-*]\s+', '', line)
sub_bullet(line) ==
    IF Len(line) >= 2 /\ line[1] \in {"-", "*"} /\ line[2] = " "
    THEN LStrip(Tail(line)) ELSE line
\* re.sub(r'^\d+[\.)]\s+', '', line)
RECURSIVE SkipDigits(_)
SkipDigits(s) == IF s # <<>> /\ Head(s) = "1" THEN SkipDigits(Tail(s)) ELSE s
sub_number(line) ==
    LET rest == SkipDigits(line)
    IN  IF Len(rest) < Len(line) /\ Len(rest) >= 2
           /\ rest[1] \in {".", ")"} /\ rest[2] = " "
        THEN LStrip(Tail(rest)) ELSE line

\* text.strip() where the text is given by its lines: blank lines at both
\* ends go, since the line feed is white space too
RECURSIVE DropBlankHead(_)
DropBlankHead(ls) ==
    IF ls # <<>> /\ strip(Head(ls)) = <<>> THEN DropBlankHead(Tail(ls)) ELSE ls
RECURSIVE DropBlankEnd(_)
DropBlankEnd(ls) ==
    IF ls # <<>> /\ strip(ls[Len(ls)]) = <<>>
    THEN DropBlankEnd(SubSeq(ls, 1, Len(ls) - 1)) ELSE ls
strip_text(ls) == DropBlankEnd(DropBlankHead(ls))

keep_line_mutant(line) == TRUE
\* if not line: continue ... if line: bullets.append(line)
keep_line(line) == line # <<>>

RECURSIVE parse_bullets(_)
parse_bullets(ls) ==
    IF ls = <<>> THEN <<>>
    ELSE LET line == strip(Head(ls))
             cleaned == IF keep_line(line)
                        THEN sub_number(sub_bullet(line)) ELSE line
         IN  (IF keep_line(line) /\ keep_line(cleaned)
              THEN <<[len |-> Len(cleaned), src |-> "reply"]>> ELSE <<>>)
             \o parse_bullets(Tail(ls))

\* article_text[:1500] cut into pieces by re.split: the stripped length of
\* each piece, a separator standing between two pieces
RECURSIVE split_window(_, _)
split_window(pieces, room) ==
    IF pieces = <<>> \/ room <= 0 THEN <<>>
    ELSE LET p == Head(pieces)
             n == IF p.len < room THEN p.len ELSE room
         IN  <<IF p.blank THEN 0 ELSE n>>
             \o split_window(Tail(pieces), room - p.len - SeparatorLen)

RECURSIVE usable(_)
usable(lens) ==
    IF lens = <<>> THEN <<>>
    ELSE (IF Head(lens) > MinSentenceLen THEN <<Head(lens)>> ELSE <<>>)
         \o usable(Tail(lens))

truncate(n) == IF n > MaxBulletLen THEN CutLen + EllipsisLen ELSE n

\* _fallback_bullets
text_bullets(article_text) ==
    LET sentences == FirstN(usable(split_window(article_text, TextWindow)), 3)
    IN  [i \in 1..3 |->
           IF i <= Len(sentences)
           THEN [len |-> truncate(sentences[i]), src |-> "text"]
           ELSE [len |-> PlaceholderLen, src |-> "pad"]]

\* if len(bullets) != 3: fallback
accepts(bullets) == Len(bullets) = 3

\* summarize_article
summarize(article_text, b) ==
    IF b.kind # "reply" THEN text_bullets(article_text)
    ELSE LET bullets == parse_bullets(strip_text(b.lines))
         IN  IF accepts(bullets) THEN bullets ELSE text_bullets(article_text)

SumInit ==
    /\ smry \in {[pc |-> "call", article_text |-> a, behaviour |-> b, result |-> <<>>] :
                   a \in Articles, b \in Behaviours}
    /\ bp = Idle /\ sel = Idle /\ arb = Idle /\ rk = Idle
    /\ seen_urls = {}
    /\ NormIdle /\ ExtractIdle /\ RunIdle

Summarize ==
    /\ smry.pc = "call"
    /\ smry' = [smry EXCEPT !.result = summarize(smry.article_text, smry.behaviour),
                            !.pc = "returned"]
    /\ UNCHANGED <<normVars, extractVars, seen_urls, runVars, bp, sel, arb, rk>>

SumNext == Summarize
SpecSum == SumInit /\ [][SumNext]_vars

-----------------------------------------------------------------------------
(* ---- SpecArb: run_digest._gemini_select_best on 2 or 3 top candidates   *)
(* and a reply of the model given character by character.                  *)

\* Bound: characters of the reply
MaxReplyLen == 3
DigitOf == [c \in {"1", "2", "3"} |-> IF c = "1" THEN 1 ELSE IF c = "2" THEN 2 ELSE 3]
WordChars == {"1", "2", "3", "4", "a"}
ReplyChars == WordChars \cup {" ", "."}
ReplyTexts == UNION {[1..n -> ReplyChars] : n \in 0..MaxReplyLen}
\* generate_content or response.text raises, or there is a reply
ArbBehaviours ==
    {[raises |-> TRUE, text |-> <<>>]}
    \cup {[raises |-> FALSE, text |-> t] : t \in ReplyTexts}

TopCandidate(n) == [title |-> "t", url |-> <<Origin, "/", n>>, score |-> 1]
TopLists ==
    {<<TopCandidate("x"), TopCandidate("ref")>>,
     <<TopCandidate("x"), TopCandidate("ref"), TopCandidate("utm_id")>>}

\* a match of r'\b([123])\b' at position i
matches_at(text, i) ==
    /\ text[i] \in DOMAIN DigitOf
    /\ i = 1 \/ text[i - 1] \notin WordChars
    /\ i = Len(text) \/ text[i + 1] \notin WordChars
\* re.search(r'\b([123])\b', choice_text): int(match.group(1)), 0 for no
\* match
RECURSIVE search_choice(_, _)
search_choice(text, i) ==
    IF i > Len(text) THEN 0
    ELSE IF matches_at(text, i) THEN DigitOf[text[i]]
    ELSE search_choice(text, i + 1)
\* the reply as gemini_select_best takes it: -1 when the call raised
reply_of(b) == IF b.raises THEN -1 ELSE search_choice(strip(b.text), 1)

ArbInit ==
    /\ arb \in {[pc |-> "call", candidates |-> top, behaviour |-> b,
                 result |-> TopCandidate("")] :
                   top \in TopLists, b \in ArbBehaviours}
    /\ bp = Idle /\ sel = Idle /\ rk = Idle /\ smry = Idle
    /\ seen_urls = {}
    /\ NormIdle /\ ExtractIdle /\ RunIdle

Arbitrate ==
    /\ arb.pc = "call"
    /\ arb' = [arb EXCEPT
                 !.result = gemini_select_best(arb.candidates,
                                               reply_of(arb.behaviour)),
                 !.pc = "returned"]
    /\ UNCHANGED <<normVars, extractVars, seen_urls, runVars, bp, sel, rk, smry>>

ArbNext == Arbitrate
SpecArb == ArbInit /\ [][ArbNext]_vars

-----------------------------------------------------------------------------
(* ---- SpecRank: scoring.rank_candidates on the extracted candidates,     *)
(* and the arbitration falling back to the first of the ranking.           *)

\* Bound: extracted candidates handed to rank_candidates
MaxRanked == 4
\* Bound: the scores run from 1 to MaxScore
MaxScore == 3
\* the i-th candidate of the pool, with the score score_article gives it
Candidate(i, score) ==
    [title |-> "t", url |-> <<Origin, "/">> \o [j \in 1..i |-> "x"],
     score |-> score]
RankInputs ==
    UNION {{[i \in 1..n |-> Candidate(i, scores[i])] :
              scores \in [1..n -> 1..MaxScore]} : n \in 0..MaxRanked}

RankInit ==
    /\ rk \in {[pc |-> "call", candidates |-> cs, result |-> <<>>,
                selected |-> Candidate(0, 0)] : cs \in RankInputs}
    /\ bp = Idle /\ sel = Idle /\ arb = Idle /\ smry = Idle
    /\ seen_urls = {}
    /\ NormIdle /\ ExtractIdle /\ RunIdle

\* top_candidates = scoring.rank_candidates(extracted, category, top_n=3)
Rank ==
    /\ rk.pc = "call"
    /\ rk' = [rk EXCEPT !.result = rank_candidates(rk.candidates),
                        !.pc = "ranked"]
    /\ UNCHANGED <<normVars, extractVars, seen_urls, runVars, bp, sel, arb, smry>>

\* _gemini_select_best among 2 or 3 top candidates when the call raises or
\* the reply holds no choice
FallBack ==
    /\ rk.pc = "ranked" /\ Len(rk.result) >= 2
    /\ \E reply \in {-1, 0} :
         rk' = [rk EXCEPT !.selected = gemini_select_best(rk.result, reply),
                          !.pc = "selected"]
    /\ UNCHANGED <<normVars, extractVars, seen_urls, runVars, bp, sel, arb, smry>>

RankNext == Rank \/ FallBack
SpecRank == RankInit /\ [][RankNext]_vars

-----------------------------------------------------------------------------
(* ---- SpecSelect: select_article call by call on a pool of candidates    *)
(* with distinct URLs, and run_digest marking the selected URL.  The trace *)
(* lists the calls select_article makes, in their order.                   *)

\* Bound: candidates in the pool
MaxPool == 4
\* the scores of a pool: all equal, or the last candidate ahead of the rest
ScorePatterns(n) ==
    {[i \in 1..n |-> 1], [i \in 1..n |-> IF i = n THEN 2 ELSE 1]}
SelectPools ==
    UNION {{[i \in 1..n |-> Candidate(i, scores[i])] :
              scores \in ScorePatterns(n)} : n \in 1..MaxPool}
SelectUrls == {Candidate(i, 1).url : i \in 1..MaxPool}

Call(name, u) == [call |-> name, url |-> u]
SelectStart(cands) ==
    [pc |-> "filter", candidates |-> cands, i |-> 1, unseen |-> <<>>,
     extracted |-> <<>>, top_candidates |-> <<>>, selected |-> Candidate(0, 0),
     rejections |-> <<>>, article |-> NoArticle, trace |-> <<>>]

lookup_step_mutant(s, table) ==
    LET c == s.candidates[s.i]
        last == s.i = Len(s.candidates)
    IN  [s EXCEPT
           !.trace = Append(@, Call("is_url_seen", c.url)),
           !.rejections = IF is_seen(c.url, table)
                          THEN Append(@, <<c.url, "duplicate">>) ELSE @,
           !.unseen = Append(@, c),
           !.i = IF last THEN 1 ELSE @ + 1,
           !.pc = IF last THEN "extract" ELSE "filter"]
\* one iteration of "Filter seen URLs"; after the last one, the test for
\* "if not unseen"
lookup_step(s, table) ==
    LET c == s.candidates[s.i]
        dup == is_seen(c.url, table)
        unseen == IF dup THEN s.unseen ELSE Append(s.unseen, c)
        last == s.i = Len(s.candidates)
    IN  [s EXCEPT
           !.trace = Append(@, Call("is_url_seen", c.url)),
           !.rejections = IF dup THEN Append(@, <<c.url, "duplicate">>) ELSE @,
           !.unseen = unseen,
           !.i = IF last THEN 1 ELSE @ + 1,
           !.pc = IF ~last THEN "filter"
                  ELSE IF unseen = <<>> THEN "returned" ELSE "extract"]

\* the rejection reason for what extract_article_text returned, "" for none
rejection_reason(o) ==
    IF o.status = "paywall" THEN "paywall"
    ELSE IF o.status \in {"fetch_failed", "extraction_failed", "too_short"}
    THEN "extraction failed (" \o o.status \o ")"
    ELSE IF ~o.has_text THEN "no text available"
    ELSE ""

\* one iteration of the extraction loop; after the last one, the test for
\* "if not extracted"
extract_step(s, o) ==
    LET c == s.unseen[s.i]
        reason == rejection_reason(o)
        extracted == IF reason = "" THEN Append(s.extracted, c) ELSE s.extracted
        last == s.i = Len(s.unseen)
    IN  [s EXCEPT
           !.trace = Append(@, Call("extract_article_text", c.url)),
           !.rejections = IF reason = "" THEN @ ELSE Append(@, <<c.url, reason>>),
           !.extracted = extracted,
           !.i = IF last THEN 1 ELSE @ + 1,
           !.pc = IF ~last THEN "extract"
                  ELSE IF extracted = <<>> THEN "returned" ELSE "rank"]

rank_step_mutant(s) ==
    LET top == rank_candidates(s.extracted)
    IN  [s EXCEPT
           !.trace = Append(@, Call("rank_candidates", <<>>)),
           !.top_candidates = top,
           !.pc = IF top = <<>> THEN "returned" ELSE "arbitrate"]
\* rank_candidates, "if not top_candidates" and "if len(top_candidates) == 1"
rank_step(s) ==
    LET top == rank_candidates(s.extracted)
    IN  [s EXCEPT
           !.trace = Append(@, Call("rank_candidates", <<>>)),
           !.top_candidates = top,
           !.selected = IF Len(top) = 1 THEN top[1] ELSE @,
           !.pc = IF top = <<>> THEN "returned"
                  ELSE IF Len(top) = 1 THEN "summarize" ELSE "arbitrate"]

\* selected = _gemini_select_best(top_candidates, category, gemini_model)
arbitrate_step(s, reply) ==
    [s EXCEPT
       !.trace = Append(@, Call("_gemini_select_best", <<>>)),
       !.selected = gemini_select_best(s.top_candidates, reply),
       !.pc = "summarize"]

summarize_step_mutant(s, sum) ==
    [s EXCEPT
       !.trace = Append(@, Call("summarize_article", s.selected.url)),
       !.article = [title |-> s.selected.title, url |-> s.selected.url,
                    bullets |-> summarize_article(sum.reply, sum.nsent)],
       !.pc = "returned"]
\* "Add non-selected to rejections", summarize_article, the result
summarize_step(s, sum) ==
    [s EXCEPT
       !.rejections = @ \o NotSelected(s.top_candidates, s.selected),
       !.trace = Append(@, Call("summarize_article", s.selected.url)),
       !.article = [title |-> s.selected.title, url |-> s.selected.url,
                    bullets |-> summarize_article(sum.reply, sum.nsent)],
       !.pc = "returned"]

SelectInit ==
    /\ seen_urls \in SUBSET SelectUrls
    /\ sel \in {SelectStart(cands) : cands \in SelectPools}
    /\ bp = Idle /\ arb = Idle /\ rk = Idle /\ smry = Idle
    /\ NormIdle /\ ExtractIdle /\ RunIdle

Lookup ==
    /\ sel.pc = "filter"
    /\ sel' = lookup_step(sel, seen_urls)
    /\ UNCHANGED <<normVars, extractVars, seen_urls, runVars, bp, arb, rk, smry>>

ExtractOne ==
    /\ sel.pc = "extract"
    /\ \E o \in ExtractResults : sel' = extract_step(sel, o)
    /\ UNCHANGED <<normVars, extractVars, seen_urls, runVars, bp, arb, rk, smry>>

RankTop ==
    /\ sel.pc = "rank"
    /\ sel' = rank_step(sel)
    /\ UNCHANGED <<normVars, extractVars, seen_urls, runVars, bp, arb, rk, smry>>

AskModel ==
    /\ sel.pc = "arbitrate"
    /\ \E reply \in GeminiReplies : sel' = arbitrate_step(sel, reply)
    /\ UNCHANGED <<normVars, extractVars, seen_urls, runVars, bp, arb, rk, smry>>

SummarizeSelected ==
    /\ sel.pc = "summarize"
    /\ \E sum \in SummaryCases : sel' = summarize_step(sel, sum)
    /\ UNCHANGED <<normVars, extractVars, seen_urls, runVars, bp, arb, rk, smry>>

\* run_digest: if article: mark_url_seen(article["url"])
MarkSelected ==
    /\ sel.pc = "returned"
    /\ seen_urls' = seen_urls \cup urls_to_mark(sel.article, sel.candidates)
    /\ sel' = [sel EXCEPT !.pc = "marked"]
    /\ UNCHANGED <<normVars, extractVars, runVars, bp, arb, rk, smry>>

SelectNext ==
    \/ Lookup \/ ExtractOne \/ RankTop \/ AskModel \/ SummarizeSelected
    \/ MarkSelected
SpecSelect == SelectInit /\ [][SelectNext]_vars

-----------------------------------------------------------------------------
(* The claims.                                                             *)

\* C1: select_article never returns a URL that is in the seen-URL table
\* when it is called, and over all runs and categories no URL is returned
\* by select_article more than once.
C1_NeverSelectsSeen ==
    /\ (pc = "mark" /\ article # NoArticle) => article.url \notin seen_urls
    /\ \A u \in PoolUrls : selections[u] <= 1

\* a later run is offered a URL it has already used, rejects it and
\* selects another
C1_Witness ==
    /\ pc = "mark" /\ run = 2 /\ article # NoArticle
    /\ \E i \in 1..Len(candidates) : candidates[i].url \in seen_urls
    /\ \E i \in 1..Len(rejections) : rejections[i][2] = "duplicate"

\* C2: the table changes only in the step after select_article returned an
\* article with a title, a URL and three bullets, and only by that
\* article's URL; every URL added during a run is the URL of an article
\* select_article produced in that run; a category for which
\* select_article returned no article leaves the table unchanged.
C2_MarkedOnlyAfterResult ==
    /\ [](seen_urls \ seen_at_start \subseteq produced)
    /\ [][/\ seen_urls' # seen_urls =>
               /\ pc = "mark" /\ article # NoArticle
               /\ article.title # "" /\ Len(article.bullets) = 3
               /\ article.url \in produced
               /\ seen_urls' = seen_urls \cup {article.url}
          /\ (pc = "mark" /\ article = NoArticle) => seen_urls' = seen_urls]_vars

\* a second run has added a URL to a table that already held one
C2_Witness ==
    /\ run = 2 /\ seen_at_start # {}
    /\ seen_urls \ seen_at_start # {}

\* the body-based part of the paywall heuristic, as the claims state it
BodyMatches(html) == html.cue \/ (html.len < 500 /\ html.kw)

\* C3: a response with HTTP status 403 gives (None, "paywall"), whatever
\* the body and the summary.
C3_Status403IsPaywall ==
    (xpc = "returned" /\ exchange.fetch = "response"
        /\ exchange.status_code = 403)
    => extraction = NoText("paywall")

C5_LengthThresholds ==
    (xpc = "returned" /\ html_is_read(exchange)
        /\ ~BodyMatches(exchange.html) /\ exchange.extracted.kind = "str")
    => IF exchange.extracted.len < 800
       THEN IF rss_summary.kind = "str" /\ rss_summary.len >= 200
            THEN extraction = [text |-> rss_summary, from |-> "rss",
                               status |-> "fallback_rss"]
            ELSE extraction = NoText("too_short")
       ELSE extraction = [text |-> exchange.extracted, from |-> "page",
                          status |-> "ok"]

\* 799 extracted characters and a summary of exactly 200
C5_Witness ==
    /\ xpc = "returned" /\ html_is_read(exchange)
    /\ ~BodyMatches(exchange.html)
    /\ exchange.extracted = Str(799) /\ rss_summary = Str(200)
    /\ extraction.status = "fallback_rss"

\* an exception is raised inside extract_article_text's try block
Raises(ex) ==
    \/ ex.fetch \in {"RequestException", "Exception"}
    \/ html_is_read(ex) /\ ~BodyMatches(ex.html) /\ ex.extracted = Raised

\* C6 as stated: every failure raised during extraction, one raised by the
\* HTTP fetch included, gives (rss_summary, "fallback_rss") with a summary
\* and (None, "extraction_failed") without.
C6_AllFailuresExtractionFailed ==
    (xpc = "returned" /\ Raises(exchange))
    => extraction = IF Truthy(rss_summary) THEN RssText(rss_summary)
                    ELSE NoText("extraction_failed")

\* C6 as amended: a failure gives (rss_summary, "fallback_rss") with a
\* non-empty summary; without one it gives (None, "fetch_failed") when the
\* HTTP fetch raised a requests.RequestException and
\* (None, "extraction_failed") for any other exception.
C6_FailuresResolve ==
    (xpc = "returned" /\ Raises(exchange))
    => extraction =
         IF rss_summary.kind = "str" /\ rss_summary.len > 0
         THEN [text |-> rss_summary, from |-> "rss", status |-> "fallback_rss"]
         ELSE IF exchange.fetch = "RequestException"
         THEN NoText("fetch_failed")
         ELSE NoText("extraction_failed")

\* the fetch timed out and there was no summary to fall back to
C6_Witness ==
    /\ xpc = "returned" /\ exchange.fetch = "RequestException"
    /\ rss_summary = NoneText
    /\ extraction.status = "fetch_failed"

\* C7: normalize_url(normalize_url(u)) = normalize_url(u).
C7_Idempotent ==
    npc \in {"renormalized", "marked", "looked"} => renormalized = normalized

\* the deny-list as the claims state it
DenyList ==
    {"utm_source", "utm_medium", "utm_campaign", "utm_content", "utm_term",
     "fbclid", "gclid", "msclkid", "mc_cid", "mc_eid", "_ga", "_gl", "ref",
     "source"}
Denied(k) == Len(k) = 1 /\ k[1] \in DenyList
\* a parameter name that starts with utm_
StartsWithUtm(k) ==
    k # <<>> /\ k[1] \in {"utm_source", "utm_medium", "utm_campaign",
                          "utm_content", "utm_term", "utm_id"}
ParamsOf(u) == parse_qs(urlparse(u).query)
NoFragment(u) ==
    /\ urlparse(u).fragment = <<>>
    /\ \A i \in 1..Len(u) : u[i] # "#"

\* C8 as stated: the result has no fragment and none of the parameters
\* utm_* (every name that starts with utm_), fbclid, gclid, msclkid, mc_cid,
\* mc_eid, _ga, _gl, ref, source; all other parameters are kept.
C8_StripsEveryUtm ==
    npc # "start" =>
        /\ NoFragment(normalized)
        /\ ParamsOf(normalized) =
             SelectSeq(ParamsOf(url),
                       LAMBDA e : ~(Denied(e.k) \/ StartsWithUtm(e.k)))

\* C8 as amended: the result has no fragment and none of the fourteen
\* parameters utm_source, utm_medium, utm_campaign, utm_content, utm_term,
\* fbclid, gclid, msclkid, mc_cid, mc_eid, _ga, _gl, ref, source; all other
\* parameters are kept with their values, other utm_ names included.
C8_StripsDenyList ==
    npc # "start" =>
        /\ NoFragment(normalized)
        /\ \A i \in 1..Len(ParamsOf(normalized)) :
               ~Denied(ParamsOf(normalized)[i].k)
        /\ ParamsOf(normalized) =
             SelectSeq(ParamsOf(url), LAMBDA e : ~Denied(e.k))

\* a query with a deny-listed parameter and another one, which is kept
C8_Witness ==
    /\ npc = "normalized"
    /\ \E i \in 1..Len(ParamsOf(url)) : Denied(ParamsOf(url)[i].k)
    /\ \E i \in 1..Len(ParamsOf(url)) : ParamsOf(url)[i].k = <<"utm_id">>
    /\ Len(ParamsOf(normalized)) = 1

\* s without its last token: a path with one trailing slash removed
DropLast(s) == SubSeq(s, 1, Len(s) - 1)

\* C9: a path that is not the root and ends with '/' loses exactly one
\* trailing slash, with or without a query after it; the root path keeps
\* its slash.
C9_SingleTrailingSlash ==
    npc # "start" =>
        LET p == urlparse(url).path
            r == urlparse(normalized).path
        IN  /\ (p # <<"/">> /\ EndsWith(p, "/")) => r = DropLast(p)
            /\ p = <<"/">> => r = <<"/">>

\* C10: once the normalised form of a URL is marked seen, is_url_seen on
\* the form the URL came in (with its tracking parameters, fragment or
\* trailing slash) answers True.
C10_RawFormIsSeen ==
    npc = "looked" => lookup = TRUE

\* C11: the pool build_candidate_pool returns never holds two candidates
\* with the same normalized URL; of the fetched entries that share a
\* normalized URL the first in feed-and-pass order is the one kept, and
\* the retained candidates stand in the order of their first encounter
\* (the pool is the first max_candidates of them).
FirstWith(all, u) ==
    CHOOSE i \in 1..Len(all) :
        all[i].url = u /\ \A j \in 1..(i - 1) : all[j].url # u
UrlsIn(all) == {all[i].url : i \in 1..Len(all)}
C11_PoolUniqueFirstKept ==
    bp.pc = "returned" =>
        LET pool == bp.result
            all == bp.candidates
            distinct == Cardinality(UrlsIn(all))
        IN  /\ \A i, j \in 1..Len(pool) : i # j => pool[i].url # pool[j].url
            /\ \A k \in 1..Len(pool) :
                  /\ pool[k].url \in UrlsIn(all)
                  /\ pool[k] = all[FirstWith(all, pool[k].url)]
            /\ \A k, l \in 1..Len(pool) :
                  k < l => FirstWith(all, pool[k].url) < FirstWith(all, pool[l].url)
            /\ Len(pool) = IF distinct < bp.maxc THEN distinct ELSE bp.maxc
            /\ \A u \in UrlsIn(all) \ UrlsIn(pool) :
                  \A k \in 1..Len(pool) :
                      FirstWith(all, pool[k].url) < FirstWith(all, u)

\* a URL came from two feeds of the primary pass and again in the extended
\* pass, and another URL came after it
C11_Witness ==
    /\ bp.pc = "returned" /\ Len(bp.result) = 2
    /\ \E i, j, k \in 1..Len(bp.candidates) :
          /\ i < j /\ j < k
          /\ bp.candidates[i].url = bp.candidates[j].url
          /\ bp.candidates[i].url = bp.candidates[k].url
          /\ bp.candidates[i].feed_name # bp.candidates[j].feed_name
          /\ bp.candidates[i].title[1] = 1 /\ bp.candidates[k].title[1] = 2
          /\ bp.result[1] = bp.candidates[i]

\* C14 as stated: a failure while fetching or processing one feed never
\* aborts the pool build or the run: the fetch of that feed returns an empty
\* sequence, every later feed of the category is still fetched (in the pass
\* the failure happened in) and every later category is still processed.
FetchedIn(pass) ==
    Cardinality({i \in 1..Len(bp.fetched) : bp.fetched[i].pass = pass})
PassOver(pass) ==
    IF pass = 1 THEN bp.primary >= 0
    ELSE bp.pc \in {"dedup", "returned", "done"}
RECURSIVE GatheredBy(_)
GatheredBy(i) == IF i = 0 THEN 0 ELSE bp.fetched[i].n + GatheredBy(i - 1)
FailuresKept ==
    /\ bp.pc # "raised"
    /\ \A i \in 1..Len(bp.fetched) : bp.fetched[i].failed => bp.fetched[i].n = 0
    /\ Len(bp.candidates) = GatheredBy(Len(bp.fetched))
    /\ bp.pc = "done" => bp.cat = Len(CATEGORIES)
C14_EveryLaterFeedFetched ==
    /\ FailuresKept
    /\ \A i \in 1..Len(bp.fetched) :
          (bp.fetched[i].failed /\ PassOver(bp.fetched[i].pass)) =>
              FetchedIn(bp.fetched[i].pass) = NumFeeds

\* C14 amended: the failing fetch returns an empty sequence and the build
\* goes on with the next feed of the pass unless max_candidates entries
\* are already gathered; a pass stops before its last feed only when
\* max_candidates entries are gathered; every later category is processed.
C14_FailureIsolated ==
    /\ FailuresKept
    /\ \A i \in 1..Len(bp.fetched) :
          (/\ bp.fetched[i].failed
           /\ bp.fetched[i].feed < NumFeeds
           /\ GatheredBy(i) < bp.maxc) =>
              IF i < Len(bp.fetched)
              THEN /\ bp.fetched[i + 1].pass = bp.fetched[i].pass
                   /\ bp.fetched[i + 1].feed = bp.fetched[i].feed + 1
              ELSE /\ bp.pc = "fetch" /\ bp.pass = bp.fetched[i].pass
                   /\ bp.feed = bp.fetched[i].feed + 1
    /\ \A pass \in 1..2 :
          (PassOver(pass) /\ FetchedIn(pass) \notin {0, NumFeeds}) =>
              \E i \in 1..Len(bp.fetched) :
                  /\ bp.fetched[i].pass = pass
                  /\ GatheredBy(i) >= bp.maxc
                  /\ \A j \in (i + 1)..Len(bp.fetched) : bp.fetched[j].pass # pass

\* a feed failed in the first category; in the second category the first
\* feed delivered an entry, the second has just failed and the third is up
C14_Witness ==
    /\ bp.pc = "fetch" /\ bp.cat = 2 /\ bp.pass = 1 /\ bp.feed = NumFeeds
    /\ bp.failed /\ Len(bp.fetched) = 2
    /\ bp.fetched[1].n = 1 /\ ~bp.fetched[1].failed
    /\ bp.fetched[2].failed

\* C16 as stated: with max_candidates >= 3 the extended pass runs if and
\* only if fewer than 3 candidates were gathered in the primary pass, and
\* every returned pool of fewer than 3 candidates has been through the
\* extended pass.
RanExtended == FetchedIn(2) > 0
C16_ShortPoolWentThroughExtended ==
    (bp.pc = "returned" /\ bp.maxc >= 3) =>
        /\ RanExtended <=> bp.primary < 3
        /\ Len(bp.result) < 3 => RanExtended

\* C16 amended: the count that decides on the extended pass is taken before
\* the duplicates are removed; a returned pool of fewer than 3 candidates
\* has been through the extended pass or comes from 3 or more primary-pass
\* entries that share normalized URLs.
C16_ExtendedIffFewRawEntries ==
    (bp.pc = "returned" /\ bp.maxc >= 3) =>
        /\ RanExtended <=> bp.primary < 3
        /\ (Len(bp.result) < 3 /\ ~RanExtended) =>
              /\ bp.primary >= 3
              /\ Len(bp.candidates) = bp.primary
              /\ Cardinality(UrlsIn(bp.candidates)) < bp.primary

\* three primary-pass entries with one URL: a pool of one candidate and no
\* extended pass
C16_Witness ==
    /\ bp.pc = "returned" /\ bp.maxc >= 3
    /\ ~RanExtended /\ Len(bp.result) = 1 /\ bp.primary = 3

\* C12: for any non-empty article text and any behaviour of the model (a
\* reply of 3 bullets, a reply with another number of lines, an empty
\* reply, an error, no model to be had), summarize_article returns exactly
\* 3 strings and none of them is empty.
C12_ThreeNonEmptyBullets ==
    smry.pc = "returned" =>
        /\ Len(smry.result) = 3
        /\ \A i \in 1..3 : smry.result[i].len > 0

\* the reply has two lines, one of them a bare marker that stays; the text
\* has one sentence long enough, so two bullets are the padding
C12_Witness ==
    /\ smry.pc = "returned"
    /\ smry.behaviour.kind = "reply" /\ Len(smry.behaviour.lines) = 2
    /\ smry.behaviour.lines[2] = <<"-">>
    /\ smry.result[1].src = "text" /\ smry.result[2].src = "pad"

\* C13: in the arbitration among 2 or 3 top candidates, when the call of
\* the model raises, or the reply holds no standalone digit 1-3, or the
\* first standalone digit 1-3 exceeds the number of top candidates, the
\* first candidate of the ranking is selected; otherwise the candidate at
\* that ordinal is.  The result is always one of the top candidates.
Standalone(text) ==
    {i \in 1..Len(text) :
        /\ text[i] \in {"1", "2", "3"}
        /\ \A j \in {i - 1, i + 1} \cap (1..Len(text)) :
              text[j] \in {" ", "."}}
FirstStandalone(text) ==
    CHOOSE i \in Standalone(text) : \A j \in Standalone(text) : i <= j
Ordinal(c) == CASE c = "1" -> 1 [] c = "2" -> 2 [] c = "3" -> 3
C13_ArbitrationFallsBackToFirst ==
    arb.pc = "returned" =>
        LET top == arb.candidates
            text == arb.behaviour.text
        IN  /\ \E i \in 1..Len(top) : arb.result = top[i]
            /\ IF \/ arb.behaviour.raises
                  \/ Standalone(text) = {}
                  \/ Ordinal(text[FirstStandalone(text)]) > Len(top)
               THEN arb.result = top[1]
               ELSE arb.result = top[Ordinal(text[FirstStandalone(text)])]

\* two candidates and the reply "3 1": the first standalone digit is out of
\* range, the later one is not looked at
C13_Witness ==
    /\ arb.pc = "returned" /\ Len(arb.candidates) = 2
    /\ arb.behaviour.text = <<"3", " ", "1">>
    /\ arb.result = arb.candidates[1]

\* C18: rank_candidates returns the first top_n (3) candidates of its input
\* in the order of non-increasing score, candidates of equal score in the
\* order of the input; so the arbitration fallback, the first of the
\* ranking, is the earliest candidate among those of the maximum score.
PlaceOf(cs, i) ==
    1 + Cardinality({j \in 1..Len(cs) :
                        \/ cs[j].score > cs[i].score
                        \/ cs[j].score = cs[i].score /\ j < i})
C18_StableTopThree ==
    rk.pc \in {"ranked", "selected"} =>
        LET cs == rk.candidates
            top == rk.result
        IN  /\ Len(top) = IF Len(cs) < 3 THEN Len(cs) ELSE 3
            /\ \A k \in 1..(Len(top) - 1) : top[k].score >= top[k + 1].score
            /\ \A i \in 1..Len(cs) :
                  PlaceOf(cs, i) <= 3 => top[PlaceOf(cs, i)] = cs[i]
            /\ rk.pc = "selected" =>
                  \E i \in 1..Len(cs) :
                      /\ rk.selected = cs[i]
                      /\ \A j \in 1..Len(cs) : cs[j].score <= cs[i].score
                      /\ \A j \in 1..(i - 1) : cs[j].score < cs[i].score

\* four candidates, the second and the fourth share the maximum score and
\* the first and the third the next one: the fallback selects the second,
\* the third is cut
C18_Witness ==
    /\ rk.pc = "selected" /\ Len(rk.candidates) = 4
    /\ rk.candidates[1].score = 2 /\ rk.candidates[2].score = 3
    /\ rk.candidates[3].score = 2 /\ rk.candidates[4].score = 3
    /\ rk.selected = rk.candidates[2]
    /\ rk.result = <<rk.candidates[2], rk.candidates[4], rk.candidates[1]>>

\* C15: when the pool of a category holds one candidate that is already
\* seen and one unseen candidate that survives extraction, the seen one is
\* rejected with the reason "duplicate", the other one is selected without
\* any arbitration call (arbitration is invoked only among 2 or more top
\* candidates), and its URL is in the table after run_digest has marked it,
\* not before.
CallsOf(name) == {k \in 1..Len(sel.trace) : sel.trace[k].call = name}
C15_Case(seen, other) ==
    /\ Len(sel.candidates) = 2
    /\ {seen, other} = {1, 2}
    /\ \E k \in 1..Len(sel.rejections) :
          sel.rejections[k] = <<sel.candidates[seen].url, "duplicate">>
    /\ sel.extracted = <<sel.candidates[other]>>
C15_SeenRejectedOtherSelected ==
    /\ CallsOf("_gemini_select_best") # {} => Len(sel.top_candidates) >= 2
    /\ \A seen, other \in 1..2 :
          (sel.pc \in {"returned", "marked"} /\ C15_Case(seen, other)) =>
              /\ sel.rejections = <<<<sel.candidates[seen].url, "duplicate">>>>
              /\ sel.article # NoArticle
              /\ sel.article.url = sel.candidates[other].url
              /\ CallsOf("_gemini_select_best") = {}
              /\ sel.candidates[seen].url \in seen_urls
              /\ sel.article.url \in seen_urls <=> sel.pc = "marked"

\* the first candidate is in the table, the second survives extraction, is
\* selected and marked
C15_Witness ==
    /\ sel.pc = "marked" /\ C15_Case(1, 2)
    /\ sel.article.url = sel.candidates[2].url
    /\ seen_urls = {sel.candidates[1].url, sel.candidates[2].url}

\* C17: within select_article the stages are strictly ordered: every
\* seen-state lookup comes before the first extraction call, extraction is
\* never invoked for a candidate rejected as "duplicate", every extraction
\* call comes before ranking, ranking before any call of the model, and at
\* most one arbitration call is followed by exactly one summarization call;
\* when no candidate survives the seen filter or extraction, the model is
\* not called at all.
StageOf(name) ==
    CASE name = "is_url_seen" -> 1
      [] name = "extract_article_text" -> 2
      [] name = "rank_candidates" -> 3
      [] name = "_gemini_select_best" -> 4
      [] name = "summarize_article" -> 5
Duplicates ==
    {sel.rejections[k][1] : k \in {j \in 1..Len(sel.rejections) :
                                     sel.rejections[j][2] = "duplicate"}}
C17_StagesInOrder ==
    sel.pc # "idle" =>
        /\ \A j, k \in 1..Len(sel.trace) :
              j < k => StageOf(sel.trace[j].call) <= StageOf(sel.trace[k].call)
        /\ \A k \in CallsOf("extract_article_text") :
              sel.trace[k].url \notin Duplicates
        /\ Cardinality(CallsOf("rank_candidates")) <= 1
        /\ Cardinality(CallsOf("_gemini_select_best")) <= 1
        /\ Cardinality(CallsOf("summarize_article")) <= 1
        /\ CallsOf("_gemini_select_best") \cup CallsOf("summarize_article") # {}
              => CallsOf("rank_candidates") # {}
        /\ sel.pc \in {"returned", "marked"} =>
              /\ Cardinality(CallsOf("is_url_seen")) = Len(sel.candidates)
              /\ IF sel.unseen = <<>> \/ sel.extracted = <<>>
                 THEN /\ sel.article = NoArticle
                      /\ CallsOf("_gemini_select_best") = {}
                      /\ CallsOf("summarize_article") = {}
                 ELSE /\ sel.article # NoArticle
                      /\ Cardinality(CallsOf("summarize_article")) = 1

\* a duplicate, a paywalled candidate and two survivors: four lookups, three
\* extractions, the ranking, one arbitration and one summarization
C17_Witness ==
    /\ sel.pc = "returned" /\ Len(sel.candidates) = 4
    /\ Cardinality(Duplicates) = 1 /\ Len(sel.extracted) = 2
    /\ Len(sel.trace) = 10
    /\ sel.trace[9].call = "_gemini_select_best"
    /\ sel.trace[10].call = "summarize_article"

\* C19: for a pool of candidates with pairwise distinct URLs, each candidate
\* URL stands in the returned rejections at most once, the selected URL
\* never stands there, and the candidates that are neither selected nor
\* rejected are exactly the extraction survivors ranked outside the top 3.
RejectedUrls == {sel.rejections[k][1] : k \in 1..Len(sel.rejections)}
Survivor(i) == \E k \in 1..Len(sel.extracted) : sel.extracted[k] = sel.candidates[i]
OutsideTop(i) ==
    \E k \in 1..Len(sel.extracted) :
        /\ sel.extracted[k] = sel.candidates[i]
        /\ PlaceOf(sel.extracted, k) > 3
C19_EveryCandidateAccounted ==
    sel.pc \in {"returned", "marked"} =>
        /\ \A j, k \in 1..Len(sel.rejections) :
              j # k => sel.rejections[j][1] # sel.rejections[k][1]
        /\ RejectedUrls \subseteq {sel.candidates[i].url : i \in 1..Len(sel.candidates)}
        /\ sel.article # NoArticle => sel.article.url \notin RejectedUrls
        /\ \A i \in 1..Len(sel.candidates) :
              (/\ sel.candidates[i].url \notin RejectedUrls
               /\ sel.candidates[i].url # sel.article.url)
              <=> (Survivor(i) /\ OutsideTop(i))

\* four survivors, the last one ranked first: the third gets no record
C19_Witness ==
    /\ sel.pc = "returned" /\ Len(sel.extracted) = 4
    /\ sel.candidates[4].score = 2
    /\ sel.article.url = sel.candidates[1].url
    /\ Len(sel.rejections) = 2
    /\ sel.candidates[3].url \notin RejectedUrls

=============================================================================
